---- MODULE Spec2Model ----
\* Verification model of phuongdo/claude-code:
\*   execution/local_server.py  (webhook server: execute_webhook, run_script,
\*                               run_upwork_scrape_apply, run_directive)
\*   execution/_template.py     (execution script template)
\* plus the Skool RAG indexer and chunk builder, which are described in the
\* specification only.
EXTENDS Integers, Sequences, FiniteSets, TLC

\* ------------------------------------------------------------------------
\* Bounds of the model
\* ------------------------------------------------------------------------
\* largest max_turns a request payload carries explicitly
MaxTurnsIn == 3
\* most tool_use responses the language model gives within one request
MaxToolRequests == 4
\* most chunks in the chunk list handed to index_chunks
MaxChunks == 4
\* largest batch_size handed to index_chunks
MaxBatch == 2
\* most comments of one post
MaxComments == 4

\* ------------------------------------------------------------------------
\* Program constants
\* ------------------------------------------------------------------------
DefaultMaxTurns == 15
ScrapeTimeout == 300
ProposalTimeout == 1800
ScriptTimeout == 600

\* Python's None, and a key that is absent from a payload
None == "None"

VARIABLES
    \* ---- local_server.py ----
    pc,               \* position of the request being served
    configExists,     \* execution/webhooks.json exists on disk
    slug,             \* path parameter of the request
    max_turns,        \* payload.get("max_turns", 15)
    allowed_tools,    \* webhook_config.get("tools", ["send_email"])
    turn_count,       \* run_directive: turn_count
    conversation_log, \* run_directive: conversation_log
    messages,         \* run_directive: per turn, the tool_use / tool_result pair
                      \* appended to messages
    modelCalls,       \* number of client.messages.create calls of this request
    implCalls,        \* the TOOL_IMPLEMENTATIONS entries invoked, with their turn
    implOutcomes,     \* what each finished implementation call did
    pendingTool,      \* tool_use.name whose implementation is running
    toolUses,         \* tool_use responses given by the language model
    results,          \* run_upwork_scrape_apply: results
    subprocs,         \* subprocesses started by this request
    directiveLoads,   \* directive files read by this request
    procs,            \* the subprocesses of this request that have ended
    output_file,      \* the output file as "Try to load output" found it
    response,         \* HTTP response of the request
    \* ---- _template.py ----
    t_pc,             \* position of the script process
    t_logic,          \* what the script logic inside the try block does
    t_stdout_ok,      \* sys.stdout can be written
    t_stderr_ok,      \* sys.stderr can be written
    t_stdout,         \* lines printed to stdout
    t_stderr,         \* lines printed to stderr
    t_exc,            \* the exception being handled or propagating
    t_ret,            \* the value main returned, once it has returned
    t_exit,           \* the exit code of the process, once it has exited
    \* ---- RAG indexer (index_chunks) ----
    i_pc,             \* position of the index_chunks call
    chunks,           \* the chunk list, as the sequence of its chunk ids
    batch_size,       \* batch_size argument
    progress_file,    \* the Progress Checkpoint persisted on disk
    checkpoint,       \* the checkpoint set held in memory by the call
    loaded,           \* the checkpoint as the current call loaded it
    remaining,        \* chunks still to process in this call
    embedded,         \* ids whose text this call sent to the embedding API
    index,            \* ids present in the vector index
    \* ---- RAG chunk builder (reconstruct_threads) ----
    r_pc,             \* position of the reconstruct_threads call
    comments,         \* the flat Comment list of one post
    threads           \* the Thread list returned

serverVars == <<pc, configExists, slug, max_turns, allowed_tools, turn_count,
                conversation_log, messages, modelCalls, implCalls,
                implOutcomes, pendingTool, toolUses, results, subprocs,
                directiveLoads, procs, output_file, response>>

templateVars == <<t_pc, t_logic, t_stdout_ok, t_stderr_ok, t_stdout, t_stderr,
                  t_exc, t_ret, t_exit>>

indexerVars == <<i_pc, chunks, batch_size, progress_file, checkpoint, loaded,
                 remaining, embedded, index>>

threadVars == <<r_pc, comments, threads>>

nonServerVars == <<templateVars, indexerVars, threadVars>>

nonTemplateVars == <<serverVars, indexerVars, threadVars>>

nonIndexerVars == <<serverVars, templateVars, threadVars>>

nonThreadVars == <<serverVars, templateVars, indexerVars>>

vars == <<serverVars, templateVars, indexerVars, threadVars>>

\* ------------------------------------------------------------------------
\* Module-level tables of local_server.py
\* ------------------------------------------------------------------------
TOOL_IMPLEMENTATIONS == {"send_email", "read_sheet", "update_sheet"}

ALL_TOOLS == {"send_email", "read_sheet", "update_sheet"}

SCRIPT_HANDLERS == {"upwork_scrape_apply"}

\* ------------------------------------------------------------------------
\* Environment: files on disk and what the outside world can answer
\* ------------------------------------------------------------------------
\* content of execution/webhooks.json when it exists
WebhooksFile ==
    [mailer   |-> [directive |-> "send_report", script |-> None,
                   tools |-> <<"send_email">>],
     sheets   |-> [directive |-> "sync_sheets", script |-> None,
                   tools |-> <<"read_sheet", "delete_rows">>],
     notools  |-> [directive |-> "send_report", script |-> None],
     ghostdir |-> [directive |-> "ghost", script |-> None,
                   tools |-> <<"send_email">>],
     upwork   |-> [directive |-> None, script |-> "upwork_scrape_apply"],
     cleanup  |-> [directive |-> None, script |-> "cleanup"],
     ghostscr |-> [directive |-> None, script |-> "ghost_script"],
     empty    |-> [directive |-> None, script |-> None]]

\* slugs a client may POST to
Slugs == DOMAIN WebhooksFile \cup {"unknown"}

\* directives/<name>.md files that exist
DirectiveFiles == {"send_report", "sync_sheets"}

\* execution/<name>.py files that exist
ScriptFiles == {"cleanup", "upwork_apify_scraper", "upwork_proposal_generator"}

\* tool names the language model may ask for
ToolNames == {"send_email", "read_sheet", "delete_rows", "rm_rf"}

\* payloads: with a "max_turns" key of some value, or without the key
Payloads ==
    {[has_max_turns |-> TRUE, max_turns |-> n] : n \in -1 .. MaxTurnsIn}
    \cup {[has_max_turns |-> FALSE, max_turns |-> 0]}

\* responses of client.messages.create: stop_reason and the first tool_use block
Responses ==
    {[stop_reason |-> "tool_use", tool |-> t] : t \in ToolNames \cup {None}}
    \cup {[stop_reason |-> "end_turn", tool |-> None]}

\* what a tool implementation does: return a dict or raise an Exception
ImplOutcomes ==
    {[kind |-> "return", value |-> <<"status", "sent">>],
     [kind |-> "return", value |-> <<"error", "token.json not found">>],
     [kind |-> "raise", value |-> <<"HttpError 403">>]}

\* a child process: its running time in seconds, its exit status, whether its
\* stdout holds a Google Sheet URL, and whether it could be started at all
Procs ==
    [runtime : {60, 450, 900, 2400}, returncode : {0, 1},
     stdout_url : BOOLEAN, oserror : {FALSE}]
    \cup {[runtime |-> 60, returncode |-> 0, stdout_url |-> FALSE,
           oserror |-> TRUE]}

\* .tmp/upwork_jobs_with_proposals.json: absent, unparsable, a list of n
\* jobs, or a dict with or without "count"
OutputFiles ==
    {[kind |-> "absent", n |-> 0], [kind |-> "invalid", n |-> 0],
     [kind |-> "list", n |-> 0], [kind |-> "list", n |-> 2],
     [kind |-> "dict", n |-> 3], [kind |-> "dict_nocount", n |-> 0]}

\* ------------------------------------------------------------------------
\* Pure helpers
\* ------------------------------------------------------------------------
SeqToSet(s) == {s[i] : i \in 1 .. Len(s)}

\* dict.get(key, default) on a record used as a dict
Get(d, key, default) == IF key \in DOMAIN d THEN d[key] ELSE default

\* json.dumps({"error": f"Tool '{name}' not permitted"})
NotPermitted(name) ==
    [key |-> "error", text |-> <<"Tool '", name, "' not permitted">>]

\* json.dumps({"error": f"No implementation for {name}"})
NoImplementation(name) ==
    [key |-> "error", text |-> <<"No implementation for ", name>>]

\* json.dumps({"error": str(e)})
ToolError(e) == [key |-> "error", text |-> e]

\* json.dumps(result)
Dumps(value) == [key |-> "result", text |-> value]

\* a conversation_log entry before line 451 has set its "result"
NoResult == [key |-> "none", text |-> <<>>]

\* subprocess.run(cmd, timeout=t)
subprocess_run(proc, t) ==
    IF proc.oserror THEN [kind |-> "Exception"]
    ELSE IF proc.runtime > t THEN [kind |-> "TimeoutExpired"]
    ELSE [kind |-> "completed", returncode |-> proc.returncode,
          stdout_url |-> proc.stdout_url]

\* a configuration that is served although the file is missing
LoadConfigIgnoringFile(exists) == WebhooksFile

\* load_webhook_config().get("webhooks", {})
load_webhook_config(exists) ==
    IF exists THEN WebhooksFile ELSE [x \in {} |-> None]

\* the output file before the pipeline has looked at it
Unread == [kind |-> "unread", n |-> 0]

HTTPException(code, detail) == [status_code |-> code, detail |-> detail]


\* ------------------------------------------------------------------------
\* local_server.py: state of a request that has not started
\* ------------------------------------------------------------------------
NoRequest ==
    /\ pc = "idle"
    /\ slug = None
    /\ max_turns = 0
    /\ allowed_tools = <<>>
    /\ turn_count = 0
    /\ conversation_log = <<>>
    /\ messages = <<>>
    /\ modelCalls = 0
    /\ implCalls = <<>>
    /\ implOutcomes = <<>>
    /\ pendingTool = None
    /\ toolUses = 0
    /\ results = [steps |-> <<>>, errors |-> <<>>]
    /\ subprocs = <<>>
    /\ directiveLoads = 0
    /\ procs = <<>>
    /\ output_file = Unread
    /\ response = [status_code |-> 0]

ServerInit ==
    /\ configExists \in BOOLEAN
    /\ NoRequest

runVars == <<turn_count, conversation_log, messages, modelCalls, implCalls,
             implOutcomes, pendingTool, toolUses>>

scriptVars == <<results, subprocs, procs, output_file>>

\* the body execute_webhook returns for a script-type webhook (lines 557-565)
ScriptResponse(script_name, result) ==
    [status_code |-> 200,
     status |-> Get(result, "status", "completed"),
     type |-> "script",
     script |-> script_name,
     result |-> result]

\* the body execute_webhook returns for a directive-type webhook (lines 593-604)
DirectiveResponse(log, turns) ==
    [status_code |-> 200,
     status |-> "success",
     type |-> "directive",
     conversation |-> log,
     usage |-> [turns |-> turns]]

\* the guard of execute_webhook's slug lookup (line 542)
SlugKnown(s, webhooks) == s \in DOMAIN webhooks

\* execute_webhook up to the first external call it waits for: the config
\* lookup, the dispatch on script / directive, run_script's own lookups, and
\* run_directive up to its first client.messages.create
execute_webhook(s, payload, writeOk) ==
    LET webhooks == load_webhook_config(configExists)
    IN
    /\ pc = "idle"
    /\ slug' = s
    /\ max_turns' = IF payload.has_max_turns THEN payload.max_turns
                    ELSE DefaultMaxTurns
    /\ UNCHANGED <<configExists, turn_count, conversation_log, messages,
                   implCalls, implOutcomes, pendingTool, toolUses, results,
                   procs, output_file>>
    /\ IF ~SlugKnown(s, webhooks)
       THEN /\ response' = HTTPException(404, <<"Unknown webhook slug: ", s>>)
            /\ pc' = "responded"
            /\ UNCHANGED <<allowed_tools, modelCalls, subprocs, directiveLoads>>
       ELSE
       LET webhook_config == webhooks[s]
           directive_name == Get(webhook_config, "directive", None)
           script_name == Get(webhook_config, "script", None)
       IN
       IF script_name # None
       THEN \* run_script
            /\ UNCHANGED <<allowed_tools, modelCalls, directiveLoads>>
            /\ IF script_name \in SCRIPT_HANDLERS
               THEN /\ pc' = "scrape"
                    /\ subprocs' = <<"scrape">>
                    /\ UNCHANGED response
               ELSE IF script_name \notin ScriptFiles
               THEN /\ response' = ScriptResponse(script_name,
                          [error |-> "Script not found"])
                    /\ pc' = "responded"
                    /\ UNCHANGED subprocs
               ELSE IF ~writeOk
               THEN \* json.dump of the input file raises: caught at line 566
                    /\ response' = HTTPException(500, <<"OSError">>)
                    /\ pc' = "responded"
                    /\ UNCHANGED subprocs
               ELSE /\ pc' = "script"
                    /\ subprocs' = <<"script">>
                    /\ UNCHANGED response
       ELSE IF directive_name = None
       THEN /\ response' = HTTPException(400,
                  <<"Webhook must have either 'directive' or 'script' defined">>)
            /\ pc' = "responded"
            /\ UNCHANGED <<allowed_tools, modelCalls, subprocs, directiveLoads>>
       ELSE /\ allowed_tools' = Get(webhook_config, "tools", <<"send_email">>)
            /\ directiveLoads' = 1
            /\ UNCHANGED subprocs
            /\ IF directive_name \notin DirectiveFiles
               THEN /\ response' = HTTPException(404,
                          <<"Directive not found: ", directive_name>>)
                    /\ pc' = "responded"
                    /\ UNCHANGED modelCalls
               ELSE \* run_directive: first client.messages.create
                    /\ pc' = "model"
                    /\ modelCalls' = 1
                    /\ UNCHANGED response
    /\ UNCHANGED nonServerVars

\* ------------------------------------------------------------------------
\* run_directive (lines 365-492)
\* ------------------------------------------------------------------------
\* the while condition with the turn limit off by one
LoopOffByOne(stop_reason, tc, mt) == stop_reason = "tool_use" /\ tc <= mt

\* the while condition of the tool loop (line 414)
LoopContinues(stop_reason, tc, mt) == stop_reason = "tool_use" /\ tc < mt

\* the security check made against the table of all tools instead of the
\* webhook's list
PermittedAnyKnownTool(name, allowed) == name \in ALL_TOOLS

\* the security check (line 429): tool_use.name in allowed_tools
Permitted(name, allowed) == name \in SeqToSet(allowed)

\* TOOL_IMPLEMENTATIONS.get(name) is not None (lines 439-440)
HasImpl(name) == name \in TOOL_IMPLEMENTATIONS

\* the tool_result of an implementation call (lines 441-442, 446-448)
ImplResult(outcome) ==
    IF outcome.kind = "return" THEN Dumps(outcome.value)
    ELSE ToolError(outcome.value)

\* the result recorded only when the tool call succeeded
SetLastResultOnSuccess(log, tool_result) ==
    IF tool_result.key = "error" THEN log
    ELSE [log EXCEPT ![Len(log)] = [@ EXCEPT !.result = tool_result]]

\* conversation_log[-1]["result"] = tool_result (line 451)
SetLastResult(log, tool_result) ==
    [log EXCEPT ![Len(log)] = [@ EXCEPT !.result = tool_result]]

\* a client.messages.create call returns `resp`; the loop condition is
\* evaluated on it and, when it holds, the body runs up to the point where the
\* tool implementation is called or the next model call is made
ModelReturns(resp) ==
    /\ pc = "model"
    /\ resp.stop_reason = "tool_use" => toolUses < MaxToolRequests
    /\ toolUses' = IF resp.stop_reason = "tool_use" THEN toolUses + 1 ELSE toolUses
    /\ UNCHANGED <<configExists, slug, max_turns, allowed_tools, scriptVars,
                   directiveLoads, implOutcomes>>
    /\ IF LoopContinues(resp.stop_reason, turn_count, max_turns)
       THEN /\ turn_count' = turn_count + 1
            /\ IF resp.tool = None
               THEN \* no tool_use block: break, then lines 471-492
                    /\ response' = DirectiveResponse(conversation_log, turn_count')
                    /\ pc' = "responded"
                    /\ UNCHANGED <<conversation_log, messages, modelCalls,
                                   implCalls, pendingTool>>
               ELSE IF ~Permitted(resp.tool, allowed_tools)
               THEN /\ messages' = Append(messages,
                          [tool_use |-> resp.tool,
                           tool_result |-> NotPermitted(resp.tool)])
                    /\ modelCalls' = modelCalls + 1
                    /\ pc' = "model"
                    /\ UNCHANGED <<conversation_log, implCalls, pendingTool,
                                   response>>
               ELSE IF HasImpl(resp.tool)
               THEN \* impl(**tool_use.input) is running
                    /\ conversation_log' = Append(conversation_log,
                          [turn |-> turn_count', tool |-> resp.tool,
                           result |-> NoResult])
                    /\ implCalls' = Append(implCalls,
                          [turn |-> turn_count', tool |-> resp.tool])
                    /\ pendingTool' = resp.tool
                    /\ pc' = "tool"
                    /\ UNCHANGED <<messages, modelCalls, response>>
               ELSE /\ conversation_log' = Append(conversation_log,
                          [turn |-> turn_count', tool |-> resp.tool,
                           result |-> NoImplementation(resp.tool)])
                    /\ messages' = Append(messages,
                          [tool_use |-> resp.tool,
                           tool_result |-> NoImplementation(resp.tool)])
                    /\ modelCalls' = modelCalls + 1
                    /\ pc' = "model"
                    /\ UNCHANGED <<implCalls, pendingTool, response>>
       ELSE \* lines 471-492, then execute_webhook's return
            /\ response' = DirectiveResponse(conversation_log, turn_count)
            /\ pc' = "responded"
            /\ UNCHANGED <<turn_count, conversation_log, messages, modelCalls,
                           implCalls, pendingTool>>
    /\ UNCHANGED nonServerVars

\* client.messages.create raises (API error): nothing in run_directive catches
\* it, execute_webhook turns it into a 500 (lines 605-607)
ModelRaises ==
    /\ pc = "model"
    /\ response' = HTTPException(500, <<"APIError">>)
    /\ pc' = "responded"
    /\ UNCHANGED <<configExists, slug, max_turns, allowed_tools, runVars,
                   scriptVars, directiveLoads>>
    /\ UNCHANGED nonServerVars

\* the tool implementation returns or raises (lines 438-458), then the next
\* client.messages.create is made (line 460)
ToolReturns(outcome) ==
    /\ pc = "tool"
    /\ conversation_log' = SetLastResult(conversation_log, ImplResult(outcome))
    /\ messages' = Append(messages,
          [tool_use |-> pendingTool, tool_result |-> ImplResult(outcome)])
    /\ implOutcomes' = Append(implOutcomes,
          [turn |-> turn_count, outcome |-> outcome])
    /\ modelCalls' = modelCalls + 1
    /\ pendingTool' = None
    /\ pc' = "model"
    /\ UNCHANGED <<configExists, slug, max_turns, allowed_tools, turn_count,
                   implCalls, toolUses, scriptVars, directiveLoads, response>>
    /\ UNCHANGED nonServerVars

\* ------------------------------------------------------------------------
\* run_upwork_scrape_apply (lines 205-303)
\* ------------------------------------------------------------------------
\* results["steps"].append({...}) (lines 233-238, 268-273)
StepEntry(name, r) ==
    [step |-> name, returncode |-> r.returncode, stdout_url |-> r.stdout_url]

\* Step 1 (lines 225-247): what the scrape subprocess call leaves in results
ScrapeStep(res, r) ==
    IF r.kind = "completed"
    THEN [res EXCEPT !.steps = Append(@, StepEntry("scrape", r)),
                     !.errors = IF r.returncode # 0
                                THEN Append(@, "Scrape failed")
                                ELSE @]
    ELSE IF r.kind = "TimeoutExpired"
    THEN [res EXCEPT !.errors = Append(@, "Scrape timed out after 5 minutes")]
    ELSE [res EXCEPT !.errors = Append(@, "Scrape error")]

\* Step 1 returns early (lines 241, 244, 247)
ScrapeAborts(r) == r.kind # "completed" \/ r.returncode # 0

\* Step 2 without its `except subprocess.TimeoutExpired` branch: the timeout
\* falls to the generic handler
ProposalStepNoTimeoutBranch(res, r) ==
    IF r.kind = "completed"
    THEN [res EXCEPT !.steps = Append(@, StepEntry("proposals", r)),
                     !.errors = IF r.returncode # 0
                                THEN Append(@, "Proposal generation failed")
                                ELSE @]
    ELSE [res EXCEPT !.errors = Append(@, "Proposal error")]

\* Step 2 (lines 260-279)
ProposalStep(res, r) ==
    IF r.kind = "completed"
    THEN [res EXCEPT !.steps = Append(@, StepEntry("proposals", r)),
                     !.errors = IF r.returncode # 0
                                THEN Append(@, "Proposal generation failed")
                                ELSE @]
    ELSE IF r.kind = "TimeoutExpired"
    THEN [res EXCEPT !.errors =
              Append(@, "Proposal generation timed out after 30 minutes")]
    ELSE [res EXCEPT !.errors = Append(@, "Proposal error")]

\* "Try to load output" (lines 282-289)
LoadOutput(res, f) ==
    IF f.kind = "list" \/ f.kind = "dict"
    THEN res @@ [jobs_processed |-> f.n]
    ELSE IF f.kind = "dict_nocount"
    THEN res @@ [jobs_processed |-> 0]
    ELSE res

\* lines 292-296: the sheet URL is searched in the stdout of the last step
SheetUrl(res) ==
    IF Len(res.steps) > 0 /\ res.steps[Len(res.steps)].stdout_url
    THEN res @@ [sheet_url |-> "https://docs.google.com/spreadsheets/d/x"]
    ELSE res

\* line 298
Status(res) ==
    IF res.errors = <<>> THEN "success"
    ELSE IF Get(res, "jobs_processed", 0) # 0 THEN "partial"
    ELSE "failed"

\* line 301
CleanSteps(steps) ==
    [i \in 1 .. Len(steps) |->
        [step |-> steps[i].step,
         status |-> IF steps[i].returncode = 0 THEN "ok" ELSE "failed"]]

\* lines 281-303
Finish(res, f) ==
    LET out == SheetUrl(LoadOutput(res, f))
    IN [out EXCEPT !.steps = CleanSteps(@)] @@ [status |-> Status(out)]

ScrapeReturns(proc) ==
    LET r == subprocess_run(proc, ScrapeTimeout)
    IN
    /\ pc = "scrape"
    /\ results' = ScrapeStep(results, r)
    /\ procs' = Append(procs, [step |-> "scrape", proc |-> proc])
    /\ IF ScrapeAborts(r)
       THEN /\ response' = ScriptResponse("upwork_scrape_apply", results')
            /\ pc' = "responded"
            /\ UNCHANGED subprocs
       ELSE /\ pc' = "proposals"
            /\ subprocs' = Append(subprocs, "proposals")
            /\ UNCHANGED response
    /\ UNCHANGED <<configExists, slug, max_turns, allowed_tools, runVars,
                   directiveLoads, output_file>>
    /\ UNCHANGED nonServerVars

ProposalsReturns(proc, f) ==
    LET r == subprocess_run(proc, ProposalTimeout)
    IN
    /\ pc = "proposals"
    /\ results' = Finish(ProposalStep(results, r), f)
    /\ procs' = Append(procs, [step |-> "proposals", proc |-> proc])
    /\ output_file' = f
    /\ response' = ScriptResponse("upwork_scrape_apply", results')
    /\ pc' = "responded"
    /\ UNCHANGED <<configExists, slug, max_turns, allowed_tools, runVars,
                   directiveLoads, subprocs>>
    /\ UNCHANGED nonServerVars

\* ------------------------------------------------------------------------
\* run_script, generic runner (lines 325-342)
\* ------------------------------------------------------------------------
ScriptResult(r) ==
    IF r.kind = "completed"
    THEN [status |-> IF r.returncode = 0 THEN "success" ELSE "failed",
          returncode |-> r.returncode]
    ELSE IF r.kind = "TimeoutExpired"
    THEN [error |-> "Script timed out after 10 minutes"]
    ELSE [error |-> "OSError"]

ScriptReturns(proc) ==
    LET r == subprocess_run(proc, ScriptTimeout)
    IN
    /\ pc = "script"
    /\ procs' = Append(procs, [step |-> "script", proc |-> proc])
    /\ response' = ScriptResponse(WebhooksFile[slug].script, ScriptResult(r))
    /\ pc' = "responded"
    /\ UNCHANGED <<configExists, slug, max_turns, allowed_tools, runVars,
                   directiveLoads, results, subprocs, output_file>>
    /\ UNCHANGED nonServerVars

\* the response has been sent; the server waits for the next request, and the
\* configuration file may have been created or removed meanwhile
NextRequest ==
    /\ pc = "responded"
    /\ configExists' \in BOOLEAN
    /\ pc' = "idle"
    /\ slug' = None
    /\ max_turns' = 0
    /\ allowed_tools' = <<>>
    /\ turn_count' = 0
    /\ conversation_log' = <<>>
    /\ messages' = <<>>
    /\ modelCalls' = 0
    /\ implCalls' = <<>>
    /\ implOutcomes' = <<>>
    /\ pendingTool' = None
    /\ toolUses' = 0
    /\ results' = [steps |-> <<>>, errors |-> <<>>]
    /\ subprocs' = <<>>
    /\ directiveLoads' = 0
    /\ procs' = <<>>
    /\ output_file' = Unread
    /\ response' = [status_code |-> 0]
    /\ UNCHANGED nonServerVars

\* ------------------------------------------------------------------------
\* Parts of the repository that a specification does not exercise stay idle
\* ------------------------------------------------------------------------
TemplateIdle ==
    /\ t_pc = "off"
    /\ t_logic = [kind |-> "ok", cls |-> None, msg |-> None, code |-> 0]
    /\ t_stdout_ok = TRUE
    /\ t_stderr_ok = TRUE
    /\ t_stdout = <<>>
    /\ t_stderr = <<>>
    /\ t_exc = [cls |-> None, msg |-> None, code |-> 0]
    /\ t_ret = [returned |-> FALSE, value |-> 0]
    /\ t_exit = [exited |-> FALSE, code |-> 0]

ServerIdle ==
    /\ configExists = FALSE
    /\ NoRequest

IndexerIdle ==
    /\ i_pc = "off"
    /\ chunks = <<>>
    /\ batch_size = 1
    /\ progress_file = {}
    /\ checkpoint = {}
    /\ loaded = {}
    /\ remaining = <<>>
    /\ embedded = <<>>
    /\ index = {}

ThreadsIdle ==
    /\ r_pc = "off"
    /\ comments = <<>>
    /\ threads = <<>>

Init == ServerInit /\ TemplateIdle /\ IndexerIdle /\ ThreadsIdle

Next ==
    \/ \E s \in Slugs, payload \in Payloads, w \in BOOLEAN :
          execute_webhook(s, payload, w)
    \/ \E resp \in Responses : ModelReturns(resp)
    \/ ModelRaises
    \/ \E o \in ImplOutcomes : ToolReturns(o)
    \/ \E p \in Procs : ScrapeReturns(p)
    \/ \E p \in Procs, f \in OutputFiles : ProposalsReturns(p, f)
    \/ \E p \in Procs : ScriptReturns(p)
    \/ NextRequest

Spec == Init /\ [][Next]_vars

\* ------------------------------------------------------------------------
\* _template.py
\* ------------------------------------------------------------------------
\* exception classes that derive from Exception
ExceptionClasses == {"ValueError", "KeyError", "RuntimeError", "OSError"}

\* what the script logic of the try block (line 24) can do: complete, raise
\* an exception, be interrupted from the keyboard, or call sys.exit
LogicOutcomes ==
    {[kind |-> "ok", cls |-> None, msg |-> None, code |-> 0]}
    \cup {[kind |-> "raise", cls |-> "ValueError", msg |-> "bad input", code |-> 0],
          [kind |-> "raise", cls |-> "KeyError", msg |-> "API_KEY", code |-> 0],
          [kind |-> "raise", cls |-> "RuntimeError", msg |-> "partial failure",
           code |-> 0],
          [kind |-> "raise", cls |-> "OSError", msg |-> "No space left on device",
           code |-> 0],
          [kind |-> "raise", cls |-> "KeyboardInterrupt", msg |-> "", code |-> 0]}
    \cup {[kind |-> "raise", cls |-> "SystemExit", msg |-> "", code |-> c] :
             c \in {0, 1, 2}}

Exc(cls, msg, code) == [cls |-> cls, msg |-> msg, code |-> code]

\* a handler that catches ValueError only
CaughtValueErrorOnly(e) == e.cls = "ValueError"

\* `except Exception as e` (line 28) catches e
Caught(e) == e.cls \in ExceptionClasses

\* the exit code the interpreter gives a process whose main module ends
\* with exception e propagating
InterpreterExit(e) ==
    IF e.cls = "SystemExit" THEN e.code
    ELSE IF e.cls = "KeyboardInterrupt" THEN 130
    ELSE 1

\* sys.exit(exit_code) (line 35)
SysExitCode(exit_code) == exit_code

TemplateInit ==
    /\ t_pc = "start"
    /\ t_logic \in LogicOutcomes
    /\ t_stdout_ok \in BOOLEAN
    /\ t_stderr_ok \in BOOLEAN
    /\ t_stdout = <<>>
    /\ t_stderr = <<>>
    /\ t_exc = [cls |-> None, msg |-> None, code |-> 0]
    /\ t_ret = [returned |-> FALSE, value |-> 0]
    /\ t_exit = [exited |-> FALSE, code |-> 0]

\* main, the try block (lines 23-26)
MainTry ==
    /\ t_pc = "start"
    /\ IF t_logic.kind = "ok"
       THEN IF t_stdout_ok
            THEN /\ t_stdout' = Append(t_stdout, "Script executed successfully")
                 /\ t_ret' = [returned |-> TRUE, value |-> 0]
                 /\ t_pc' = "returned"
                 /\ UNCHANGED t_exc
            ELSE \* print raises OSError, which the handler catches
                 /\ t_exc' = Exc("OSError", "Bad file descriptor", 0)
                 /\ t_pc' = "except"
                 /\ UNCHANGED <<t_stdout, t_ret>>
       ELSE /\ t_exc' = Exc(t_logic.cls, t_logic.msg, t_logic.code)
            /\ t_pc' = IF Caught(t_exc') THEN "except" ELSE "uncaught"
            /\ UNCHANGED <<t_stdout, t_ret>>
    /\ UNCHANGED <<t_logic, t_stdout_ok, t_stderr_ok, t_stderr, t_exit>>
    /\ UNCHANGED nonTemplateVars

\* main, the except block (lines 28-30)
MainExcept ==
    /\ t_pc = "except"
    /\ IF t_stderr_ok
       THEN /\ t_stderr' = Append(t_stderr, <<"Error: ", t_exc.msg>>)
            /\ t_ret' = [returned |-> TRUE, value |-> 1]
            /\ t_pc' = "returned"
            /\ UNCHANGED t_exc
       ELSE \* print to stderr raises inside the handler
            /\ t_exc' = Exc("OSError", "Bad file descriptor", 0)
            /\ t_pc' = "uncaught"
            /\ UNCHANGED <<t_stderr, t_ret>>
    /\ UNCHANGED <<t_logic, t_stdout_ok, t_stderr_ok, t_stdout, t_exit>>
    /\ UNCHANGED nonTemplateVars

\* exit_code = main(); sys.exit(exit_code) (lines 34-35)
SysExit ==
    /\ t_pc = "returned"
    /\ t_exit' = [exited |-> TRUE, code |-> SysExitCode(t_ret.value)]
    /\ t_pc' = "exited"
    /\ UNCHANGED <<t_logic, t_stdout_ok, t_stderr_ok, t_stdout, t_stderr,
                   t_exc, t_ret>>
    /\ UNCHANGED nonTemplateVars

\* an exception leaves main: the interpreter ends the process
Uncaught ==
    /\ t_pc = "uncaught"
    /\ t_exit' = [exited |-> TRUE, code |-> InterpreterExit(t_exc)]
    /\ t_pc' = "exited"
    /\ UNCHANGED <<t_logic, t_stdout_ok, t_stderr_ok, t_stdout, t_stderr,
                   t_exc, t_ret>>
    /\ UNCHANGED nonTemplateVars

TemplateNext ==
    \/ MainTry
    \/ MainExcept
    \/ SysExit
    \/ Uncaught

InitTemplate == TemplateInit /\ ServerIdle /\ IndexerIdle /\ ThreadsIdle

SpecTemplate == InitTemplate /\ [][TemplateNext]_vars


\* ------------------------------------------------------------------------
\* RAG indexer: index_chunks(chunks, index_name, batch_size), section 4.2
\* ------------------------------------------------------------------------
ChunkIds == 1 .. MaxChunks

\* chunk lists: sequences of distinct chunk ids
ChunkLists ==
    UNION {{c \in [1 .. n -> ChunkIds] :
               \A i, j \in 1 .. n : i # j => c[i] # c[j]} : n \in 1 .. MaxChunks}

\* the checkpoint ignored: every chunk is processed again
RemainingAll(cs, ckpt) == cs

\* step 2: remaining = chunks not in checkpoint
Remaining(cs, ckpt) == SelectSeq(cs, LAMBDA id : id \notin ckpt)

\* step 3: the next fixed-size batch of `remaining`
Batch(rem, size) == SubSeq(rem, 1, IF Len(rem) < size THEN Len(rem) ELSE size)

\* `remaining` once its first batch is taken off
Rest(rem, size) == SubSeq(rem, Len(Batch(rem, size)) + 1, Len(rem))

\* step 3d: add all batch chunk ids to the checkpoint set
AddToCheckpoint(ckpt, batch) == ckpt \cup SeqToSet(batch)

\* steps 3d and 4: what is written to the checkpoint file
Persist(ckpt) == ckpt

IndexerInit ==
    /\ i_pc = "start"
    /\ chunks \in ChunkLists
    /\ batch_size \in 1 .. MaxBatch
    /\ progress_file \in SUBSET ChunkIds
    /\ checkpoint = {}
    /\ loaded = {}
    /\ remaining = <<>>
    /\ embedded = <<>>
    /\ index = progress_file

\* steps 1-2: a fresh call loads the checkpoint and computes `remaining`
LoadCheckpoint ==
    /\ i_pc = "start"
    /\ checkpoint' = progress_file
    /\ loaded' = progress_file
    /\ remaining' = Remaining(chunks, progress_file)
    /\ embedded' = <<>>
    /\ i_pc' = IF remaining' = <<>> THEN "done" ELSE "embed"
    /\ UNCHANGED <<chunks, batch_size, progress_file, index>>
    /\ UNCHANGED nonIndexerVars

\* steps 3a-3c: one batched embedding request
EmbedBatch ==
    /\ i_pc = "embed"
    /\ embedded' = embedded \o Batch(remaining, batch_size)
    /\ i_pc' = "upsert"
    /\ UNCHANGED <<chunks, batch_size, progress_file, checkpoint, loaded,
                   remaining, index>>
    /\ UNCHANGED nonIndexerVars

\* step 3d, first half: upsert the batch
UpsertBatch ==
    /\ i_pc = "upsert"
    /\ index' = index \cup SeqToSet(Batch(remaining, batch_size))
    /\ i_pc' = "save"
    /\ UNCHANGED <<chunks, batch_size, progress_file, checkpoint, loaded,
                   remaining, embedded>>
    /\ UNCHANGED nonIndexerVars

\* step 3d, second half: extend the checkpoint and persist it; step 3e
SaveCheckpoint ==
    /\ i_pc = "save"
    /\ checkpoint' = AddToCheckpoint(checkpoint, Batch(remaining, batch_size))
    /\ progress_file' = Persist(checkpoint')
    /\ remaining' = Rest(remaining, batch_size)
    /\ i_pc' = IF remaining' = <<>> THEN "done" ELSE "embed"
    /\ UNCHANGED <<chunks, batch_size, loaded, embedded, index>>
    /\ UNCHANGED nonIndexerVars

\* step 4: an exception during a batch (the embedding request or the upsert
\* fails): persist the checkpoint accumulated so far, then propagate
BatchException ==
    /\ i_pc \in {"embed", "upsert"}
    /\ progress_file' = Persist(checkpoint)
    /\ i_pc' = "aborted"
    /\ UNCHANGED <<chunks, batch_size, checkpoint, loaded, remaining, embedded,
                   index>>
    /\ UNCHANGED nonIndexerVars

\* the process is killed after the upsert and before the checkpoint write
Crash ==
    /\ i_pc = "save"
    /\ i_pc' = "aborted"
    /\ UNCHANGED <<chunks, batch_size, progress_file, checkpoint, loaded,
                   remaining, embedded, index>>
    /\ UNCHANGED nonIndexerVars

\* the same command is run again: a fresh index_chunks call
Retry ==
    /\ i_pc = "aborted"
    /\ i_pc' = "start"
    /\ checkpoint' = {}
    /\ loaded' = {}
    /\ remaining' = <<>>
    /\ embedded' = <<>>
    /\ UNCHANGED <<chunks, batch_size, progress_file, index>>
    /\ UNCHANGED nonIndexerVars

IndexerNext ==
    \/ LoadCheckpoint
    \/ EmbedBatch
    \/ UpsertBatch
    \/ SaveCheckpoint
    \/ BatchException
    \/ Crash
    \/ Retry

InitIndexer == IndexerInit /\ ServerIdle /\ TemplateIdle /\ ThreadsIdle

SpecIndexer == InitIndexer /\ [][IndexerNext]_vars

\* ------------------------------------------------------------------------
\* RAG chunk builder: reconstruct_threads(comments), section 4.1
\* ------------------------------------------------------------------------
\* the parent chain of comment i ends at a null parent within k steps
RECURSIVE ChainEnds(_, _, _)
ChainEnds(parent, i, k) ==
    IF i = 0 THEN TRUE
    ELSE IF k = 0 THEN FALSE
    ELSE ChainEnds(parent, parent[i], k - 1)

\* Comment lists of one post whose parent_id pointers form a forest: the
\* comment at position i has id i, parent_id 0 stands for null
CommentLists ==
    UNION {{[i \in 1 .. n |-> [id |-> i, parent_id |-> parent[i]]] :
               parent \in {f \in [1 .. n -> 0 .. n] :
                              \A i \in 1 .. n : ChainEnds(f, i, n)}} :
           n \in 1 .. MaxComments}

\* the top-level comments (parent_id null), in list order
TopLevel(cs) == SelectSeq(cs, LAMBDA c : c.parent_id = 0)

\* the comments whose parent is `pid`, in list order
Children(cs, pid) == SelectSeq(cs, LAMBDA c : c.parent_id = pid)

\* depth-first collection of every comment below `pid`
RECURSIVE CollectReplies(_, _)
RECURSIVE CollectEach(_, _)
CollectEach(cs, kids) ==
    IF kids = <<>> THEN <<>>
    ELSE <<Head(kids)>> \o CollectReplies(cs, Head(kids).id)
         \o CollectEach(cs, Tail(kids))

CollectReplies(cs, pid) == CollectEach(cs, Children(cs, pid))

\* threads that hold the direct replies of their root only
ReconstructDirectReplies(cs) ==
    LET tops == TopLevel(cs)
    IN [t \in 1 .. Len(tops) |->
           [root |-> tops[t], replies |-> Children(cs, tops[t].id)]]

reconstruct_threads(cs) ==
    LET tops == TopLevel(cs)
    IN [t \in 1 .. Len(tops) |->
           [root |-> tops[t], replies |-> CollectReplies(cs, tops[t].id)]]

ThreadsInit ==
    /\ r_pc = "start"
    /\ comments \in CommentLists
    /\ threads = <<>>

Reconstruct ==
    /\ r_pc = "start"
    /\ threads' = reconstruct_threads(comments)
    /\ r_pc' = "done"
    /\ UNCHANGED comments
    /\ UNCHANGED nonThreadVars

ThreadsNext == Reconstruct

InitThreads == ThreadsInit /\ ServerIdle /\ TemplateIdle /\ IndexerIdle

SpecThreads == InitThreads /\ [][ThreadsNext]_vars

\* ------------------------------------------------------------------------
\* Fairness: a client.messages.create call and a tool implementation call
\* each end (they return or raise), so a request being served moves on
\* ------------------------------------------------------------------------
FairSpec ==
    /\ Spec
    /\ WF_vars(\E resp \in Responses : ModelReturns(resp))
    /\ WF_vars(\E o \in ImplOutcomes : ToolReturns(o))

\* ------------------------------------------------------------------------
\* Properties
\* ------------------------------------------------------------------------
\* the request is inside run_directive, or has returned from it
InRunDirective == modelCalls > 0

\* C1: in run_directive a tool implementation is invoked only for a tool name
\* that is in the webhook's allowed_tools; a turn whose requested tool is not
\* in allowed_tools calls no implementation and sends the model the
\* tool_result {"error": "Tool '<name>' not permitted"}.
C1_ToolsScoped ==
    LET allowed == SeqToSet(allowed_tools)
    IN /\ \A i \in 1 .. Len(implCalls) : implCalls[i].tool \in allowed
       /\ pc = "tool" => pendingTool \in allowed
       /\ \A t \in 1 .. Len(messages) :
             messages[t].tool_use \notin allowed =>
                /\ messages[t].tool_result =
                      [key |-> "error",
                       text |-> <<"Tool '", messages[t].tool_use,
                                  "' not permitted">>]
                /\ \A i \in 1 .. Len(implCalls) : implCalls[i].turn # t
                /\ \A i \in 1 .. Len(conversation_log) :
                      conversation_log[i].turn # t

\* a finished directive in which a forbidden tool was refused and a permitted
\* one was run
C1_Witness ==
    /\ pc = "responded"
    /\ response.status_code = 200
    /\ implCalls # <<>>
    /\ \E t \in 1 .. Len(messages) :
          /\ messages[t].tool_use \notin SeqToSet(allowed_tools)
          /\ messages[t].tool_use \in TOOL_IMPLEMENTATIONS

\* C2: a POST whose slug is not a key of the loaded configuration (an absent
\* webhooks.json loads as no webhooks) ends in a 404, and no script is run, no
\* directive is loaded and no model call is made for it.
C2_UnknownSlug404 ==
    LET known == IF configExists THEN DOMAIN WebhooksFile ELSE {}
    IN (slug # None /\ slug \notin known) =>
          /\ pc = "responded"
          /\ response.status_code = 404
          /\ response.detail = <<"Unknown webhook slug: ", slug>>
          /\ subprocs = <<>>
          /\ procs = <<>>
          /\ directiveLoads = 0
          /\ modelCalls = 0
          /\ implCalls = <<>>

\* a slug of webhooks.json is posted to while the file does not exist
C2_Witness ==
    /\ pc = "responded"
    /\ ~configExists
    /\ slug = "mailer"
    /\ response.status_code = 404

\* the steps of the request whose subprocess ran past its fixed timeout
TimedOutSteps ==
    {procs[i].step : i \in {j \in 1 .. Len(procs) :
        /\ ~procs[j].proc.oserror
        /\ procs[j].proc.runtime >
              (IF procs[j].step = "scrape" THEN 300
               ELSE IF procs[j].step = "proposals" THEN 1800 ELSE 600)}}

\* C4: a subprocess that exceeds its timeout (300 s scrape, 1800 s proposals,
\* 600 s generic script) does not abort the caller: the request ends with a
\* result dict (HTTP 200) that carries the timeout as an error string, and
\* after a proposals timeout the output file is still loaded and its job count
\* reported with status "partial".
C4_TimeoutCaught ==
    /\ "scrape" \in TimedOutSteps =>
          /\ pc = "responded"
          /\ response.status_code = 200
          /\ response.result.errors = <<"Scrape timed out after 5 minutes">>
          /\ subprocs = <<"scrape">>
    /\ (pc = "responded" /\ "proposals" \in TimedOutSteps) =>
          /\ response.status_code = 200
          /\ response.result.errors =
                <<"Proposal generation timed out after 30 minutes">>
          /\ output_file # Unread
          /\ (output_file.kind \in {"list", "dict"} /\ output_file.n > 0) =>
                /\ response.result.jobs_processed = output_file.n
                /\ response.result.status = "partial"
                /\ response.status = "partial"
          /\ (output_file.kind \in {"absent", "invalid"}) =>
                /\ "jobs_processed" \notin DOMAIN response.result
                /\ response.result.status = "failed"
    /\ "proposals" \in TimedOutSteps => pc = "responded"
    /\ "script" \in TimedOutSteps =>
          /\ pc = "responded"
          /\ response.status_code = 200
          /\ response.result = [error |-> "Script timed out after 10 minutes"]

\* the proposal generator timed out and the jobs it had written were reported
C4_Witness ==
    /\ pc = "responded"
    /\ "proposals" \in TimedOutSteps
    /\ response.status_code = 200
    /\ response.result.status = "partial"
    /\ response.result.jobs_processed = 2

\* max_turns as a number of loop iterations: a negative limit allows none
TurnCap == IF max_turns > 0 THEN max_turns ELSE 0

C7_Bounds ==
    /\ turn_count <= TurnCap
    /\ Len(implCalls) <= TurnCap
    /\ Len(messages) <= TurnCap
    /\ modelCalls <= TurnCap + 1
    /\ (pc = "responded" /\ response.status_code = 200 /\ InRunDirective) =>
          response.usage.turns <= TurnCap
    /\ max_turns <= 0 => implCalls = <<>>

\* C7 (amended): run_directive terminates for every model behaviour and is
\* bounded by max(max_turns, 0): the tool loop runs at most max(max_turns, 0)
\* iterations, invokes at most that many tool implementations, makes at most
\* max(max_turns, 0) + 1 model calls, reports usage.turns of at most
\* max(max_turns, 0), and with max_turns <= 0 executes no tool.
C7_BoundedByMaxTurns ==
    /\ []C7_Bounds
    /\ (pc \in {"model", "tool"}) ~> (pc = "responded")

\* C7 as stated: the bounds are max_turns and max_turns + 1 themselves.
C7_Original ==
    InRunDirective =>
        /\ turn_count <= max_turns
        /\ Len(implCalls) <= max_turns
        /\ modelCalls <= max_turns + 1
        /\ max_turns <= 0 => implCalls = <<>>

\* the model still asks for a tool when the turn limit is reached
C7_Witness ==
    /\ pc = "responded"
    /\ response.status_code = 200
    /\ InRunDirective
    /\ max_turns = 2
    /\ toolUses = 3
    /\ response.usage.turns = 2
    /\ Len(implCalls) = 2
    /\ modelCalls = 3
    /\ Len(response.conversation) = 2

\* C8: an exception raised by a permitted tool's implementation does not
\* leave run_directive: it becomes the JSON error string sent to the model as
\* that turn's tool_result, the next model call is made, and every entry of
\* the returned conversation log has a result.
C8_ToolErrorContained ==
    /\ \A i \in 1 .. Len(implOutcomes) :
          LET t == implOutcomes[i].turn
              o == implOutcomes[i].outcome
          IN o.kind = "raise" =>
                /\ Len(messages) >= t
                /\ messages[t].tool_result = [key |-> "error", text |-> o.value]
                /\ modelCalls >= t + 1
                /\ \E j \in 1 .. Len(conversation_log) :
                      /\ conversation_log[j].turn = t
                      /\ conversation_log[j].result =
                            [key |-> "error", text |-> o.value]
    /\ Len(implOutcomes) = Len(implCalls) - (IF pc = "tool" THEN 1 ELSE 0)
    /\ pc = "model" => modelCalls = Len(messages) + 1
    /\ (pc = "responded" /\ InRunDirective /\ response.status_code = 500) =>
          response.detail = <<"APIError">>
    /\ (pc = "responded" /\ InRunDirective /\ response.status_code = 200) =>
          \A j \in 1 .. Len(response.conversation) :
             response.conversation[j].result.key \in {"error", "result"}

\* a directive whose first tool call raised, went on to a second tool call
\* and returned its log
C8_Witness ==
    /\ pc = "responded"
    /\ response.status_code = 200
    /\ Len(implOutcomes) = 2
    /\ implOutcomes[1].outcome.kind = "raise"
    /\ implOutcomes[2].outcome.kind = "return"
    /\ Len(response.conversation) = 2

\* the script logic raised, or its print failed: an exception was raised
\* inside main
RaisedInMain == t_logic.kind = "raise" \/ ~t_stdout_ok

\* C3 (amended): main returns 0 when its logic completes without an
\* exception, and returns 1, after printing the error message to stderr, when
\* an exception deriving from Exception is raised inside it and the message
\* can be printed; whenever main returns, the process exit code is exactly the
\* value main returned. An exception that does not derive from Exception
\* (KeyboardInterrupt, SystemExit) is not caught: main does not return.
C3_ExitCodeConvention ==
    /\ t_ret.returned => t_ret.value = (IF RaisedInMain THEN 1 ELSE 0)
    /\ (t_ret.returned /\ t_ret.value = 1) =>
          /\ t_stderr = <<<<"Error: ", t_exc.msg>>>>
          /\ t_exc.cls \in {"ValueError", "KeyError", "RuntimeError", "OSError"}
    /\ t_pc = "exited" =>
          /\ ~RaisedInMain => (t_ret.returned /\ t_exit.code = 0)
          /\ t_ret.returned => t_exit.code = t_ret.value
          /\ (/\ t_logic.kind = "raise"
              /\ t_logic.cls \in {"ValueError", "KeyError", "RuntimeError",
                                  "OSError"}
              /\ t_stderr_ok) =>
                (t_ret.returned /\ t_ret.value = 1 /\ t_exit.code = 1)
          /\ (t_logic.kind = "raise"
              /\ t_logic.cls \in {"KeyboardInterrupt", "SystemExit"}) =>
                (~t_ret.returned /\ t_stderr = <<>>)

\* C3 as stated: whatever exception is raised inside main, main returns 1
\* and the process exits with what main returned.
C3_Original ==
    t_pc = "exited" =>
        /\ ~RaisedInMain => (t_ret.returned /\ t_ret.value = 0)
        /\ RaisedInMain => (t_ret.returned /\ t_ret.value = 1)
        /\ t_exit.code = t_ret.value

\* the script logic raised KeyError, main printed it and the process exited 1
C3_Witness ==
    /\ t_pc = "exited"
    /\ t_logic.cls = "KeyError"
    /\ t_ret = [returned |-> TRUE, value |-> 1]
    /\ t_exit = [exited |-> TRUE, code |-> 1]
    /\ t_stderr = <<<<"Error: ", "API_KEY">>>>

\* the ids of the chunk list
ChunkIdsOf(cs) == {cs[i] : i \in 1 .. Len(cs)}

C5_State ==
    LET ids == ChunkIdsOf(chunks)
        n == Len(chunks)
        k == Cardinality(ids \cap loaded)
    IN /\ \A i \in 1 .. Len(embedded) : embedded[i] \notin loaded
       /\ \A i, j \in 1 .. Len(embedded) : i # j => embedded[i] # embedded[j]
       /\ i_pc = "embed" => progress_file = checkpoint
       /\ i_pc = "done" =>
             /\ ChunkIdsOf(embedded) = ids \ loaded
             /\ Len(embedded) = n - k
             /\ ids \ loaded \subseteq index
             /\ ids \subseteq progress_file
             /\ progress_file = checkpoint

\* C5: a fresh index_chunks call that completes on N chunks, K of them in the
\* checkpoint, embeds and upserts exactly the N-K chunks whose ids are not in
\* the checkpoint and leaves the persisted checkpoint holding all N ids; the
\* checkpoint only grows within a run and is persisted after every successful
\* batch.
C5_Resumable ==
    /\ []C5_State
    /\ [][/\ progress_file \subseteq progress_file'
          /\ i_pc # "aborted" => checkpoint \subseteq checkpoint']_vars

\* a call resumed on a checkpoint of one of three chunks, run in two batches
C5_Witness ==
    /\ i_pc = "done"
    /\ Len(chunks) = 4
    /\ batch_size = 2
    /\ Cardinality(loaded \cap ChunkIdsOf(chunks)) = 1
    /\ Len(embedded) = 3
    /\ ChunkIdsOf(chunks) \subseteq progress_file

\* how often comment c occurs in thread th, as its root or among its replies
Occurrences(th, c) ==
    (IF th.root = c THEN 1 ELSE 0)
    + Cardinality({i \in 1 .. Len(th.replies) : th.replies[i] = c})

\* C6: for a Comment list whose parent_id pointers form a forest, every
\* comment appears in exactly one Thread, as its root or among its replies
\* (and once), and the threads are in the original order of the top-level
\* comments.
C6_ThreadsComplete ==
    r_pc = "done" =>
        /\ \A i \in 1 .. Len(comments) :
              /\ \E t \in 1 .. Len(threads) :
                    /\ Occurrences(threads[t], comments[i]) = 1
                    /\ \A u \in 1 .. Len(threads) :
                          u # t => Occurrences(threads[u], comments[i]) = 0
        /\ Len(threads) =
              Cardinality({i \in 1 .. Len(comments) : comments[i].parent_id = 0})
        /\ \A t \in 1 .. Len(threads) : threads[t].root.parent_id = 0
        /\ \A t, u \in 1 .. Len(threads) :
              t < u => threads[t].root.id < threads[u].root.id

\* two threads, one with a reply to a reply, and a reply listed before the
\* comment it answers
C6_Witness ==
    /\ r_pc = "done"
    /\ Len(comments) = 4
    /\ Len(threads) = 2
    /\ \E t \in 1 .. 2 : Len(threads[t].replies) = 2
    /\ \E i \in 1 .. 4 : comments[i].parent_id > i
    /\ \E i \in 1 .. 4 :
          comments[i].parent_id # 0
          /\ comments[comments[i].parent_id].parent_id # 0

====
